---- MODULE Spec2Model ----
(***************************************************************************)
(* The folder-based task lifecycle of the AI Employee: the Orchestrator    *)
(* (src/watchers/orchestrator.py) and the watcher run loop                 *)
(* (src/watchers/base_watcher.py) over a shared vault of directories.      *)
(***************************************************************************)
EXTENDS Integers, Sequences, FiniteSets, TLC

(***************************************************************************)
(* Bounds of the model.                                                    *)
(***************************************************************************)
\* Files created from outside the orchestrator (watchers, the human).
MaxFiles == 2
\* Calendar days the clock can advance.
MaxDay == 1
\* Watcher subprocesses that can be spawned.
MaxWatchers == 2
\* One-shot orchestrator operations that can be started.
MaxOps == 1
\* Cycles run_continuous can start.
MaxCycles == 2
\* Times the watcher process can be started (the first start and restarts).
MaxStarts == 2
\* Items one check_for_updates can return.
MaxBatch == 2
\* Characters of a string given to sanitize_filename.
MaxName == 3

(***************************************************************************)
(* The vault: directories, file names, files.                              *)
(***************************************************************************)
\* The directories Orchestrator.__init__ creates.
AutoCreated == {"Needs_Action", "Approved", "Done", "Logs"}

\* Directories the code uses and never creates.
NotCreated == {"Plans", "Pending_Approval", "scripts", "Inbox"}

\* The five lifecycle directories an Action File can be in.
Lifecycle == {"Needs_Action", "Plans", "Pending_Approval", "Approved", "Done"}

\* The directories the specification requires once an orchestrator exists.
Required == Lifecycle \cup {"Logs"}

AllDirs == AutoCreated \cup NotCreated

\* A file name is a stem and a suffix (pathlib's Path.stem and Path.suffix).
Stems == {"a", "b"}
Suffixes == {".md", ".txt"}
Names == {n \in [stem : Stems, suffix : Suffixes] : n.suffix = ".md" \/ n.stem = "a"}

\* Path.glob('*.md') keeps the names whose suffix is .md.
IsMd(n) == n.suffix = ".md"

\* The companion Plan of an Intake file: Plans/PLAN_<stem>.md.
PlanName(n) == [stem |-> "PLAN_" \o n.stem, suffix |-> ".md"]

NoName == [stem |-> "", suffix |-> ""]

Days == 0..MaxDay

VARIABLES
    dirs,               \* the directories that exist
    fs,                 \* fs[d]: the files of directory d, by name
    nextId,             \* identity of the next file created from outside
    today,              \* the current date
    logs,               \* logs[day]: Logs/<day>.jsonl, a sequence of entries
    dashboard,          \* scripts/Dashboard.md, or NoDashboard
    regen,              \* times Dashboard.md was written since a lifecycle
                        \* directory last changed, counted up to 2
    pc,                 \* where the orchestrator is
    mode,               \* the outermost call in progress
    passOp,             \* the process_* pass in progress
    listed,             \* the listing of that pass: name -> file
    todo,               \* names of the listing not yet attempted
    processed,          \* the pass's counter
    failed,             \* names whose processing raised in that pass
    passLog,            \* entries appended to the log during that pass
    info,               \* what that pass's logger.info said on its listing
    ops,                \* operations started so far
    watcher_processes,  \* Orchestrator.watcher_processes: handles (pids)
    procs,              \* status of each spawned subprocess
    signalled,          \* pids that were sent a terminate signal
    wpc,                \* where the watcher process is in BaseWatcher.run
    processed_ids,      \* BaseWatcher.processed_ids, in the watcher's memory
    state_file,         \* Logs/processed_ids.txt
    batch,              \* items of the current batch not yet handled
    emitted,            \* emitted[id]: Action Files created in Intake for id
    starts,             \* times the watcher process was started
    result,             \* how the run loop's latest call ended
    name,               \* the argument of sanitize_filename
    clean               \* what successive sanitize_filename calls returned

vars == <<dirs, fs, nextId, today, logs, dashboard, regen, pc, mode, passOp,
          listed, todo, processed, failed, passLog, info, ops,
          watcher_processes, procs, signalled, wpc, processed_ids, state_file,
          batch, emitted, starts, result, name, clean>>

fsVars == <<dirs, fs, nextId>>
passVars == <<passOp, listed, todo, processed, failed, passLog, info>>
procVars == <<watcher_processes, procs, signalled>>
sanitizeVars == <<name, clean>>
watcherVars == <<wpc, processed_ids, state_file, batch, emitted, starts, result,
                 sanitizeVars>>
orchVars == <<today, logs, dashboard, regen, pc, mode, passVars, ops, procVars>>

EmptyDir == [n \in {} |-> 0]

\* A file written from outside the orchestrator (a watcher's action file, a
\* file the human places): its identity and its modification date.
NewFile(id, day) == [id |-> id, mtime |-> day, source_file |-> NoName]

\* The Plan _create_plan_template renders for Intake file n.
PlanFile(n, day) == [id |-> 0, mtime |-> day, source_file |-> n]

NoDashboard ==
    [written |-> FALSE, inbox_count |-> 0, needs_action_count |-> 0,
     pending_count |-> 0, done_today |-> 0, last_updated |-> 0]

\* The files of d with a .md suffix, as glob('*.md') lists them.
GlobMd(f, d) == {n \in DOMAIN f[d] : IsMd(n)}

Remove(dir, n) == [m \in (DOMAIN dir) \ {n} |-> dir[m]]
Put(dir, n, file) == [m \in (DOMAIN dir) \cup {n} |-> IF m = n THEN file ELSE dir[m]]

(***************************************************************************)
(* BaseWatcher: identifiers and the Processed-ID state file                *)
(***************************************************************************)
\* The line separator of the state file.
NL == "\n"

\* Identifiers of source items: strings, as sequences of characters. "a" and
\* "b", the empty identifier, and one that holds a line break.
Ids == {<<"a">>, <<"b">>, <<>>, <<"a", NL, "b">>}

NoStateFile == [exists |-> FALSE, text |-> <<>>]

\* '\n'.join(ids)
RECURSIVE Join(_)
Join(ids) ==
    IF ids = <<>> THEN <<>>
    ELSE IF Len(ids) = 1 THEN ids[1]
    ELSE ids[1] \o <<NL>> \o Join(Tail(ids))

\* Index of the first line break of text, 0 when it has none.
FirstBreak(text) ==
    IF \E i \in 1..Len(text) : text[i] = NL
    THEN CHOOSE i \in 1..Len(text) : text[i] = NL /\ \A j \in 1..(i - 1) : text[j] # NL
    ELSE 0

\* str.splitlines(): the lines of text; a final line break ends the last
\* line and starts no further one.
RECURSIVE SplitLines(_)
SplitLines(text) ==
    IF text = <<>> THEN <<>>
    ELSE IF FirstBreak(text) = 0 THEN <<text>>
    ELSE <<SubSeq(text, 1, FirstBreak(text) - 1)>>
         \o SplitLines(SubSeq(text, FirstBreak(text) + 1, Len(text)))

\* The orders in which a set can be iterated: each element once.
RECURSIVE Orders(_)
Orders(S) ==
    IF S = {} THEN {<<>>}
    ELSE UNION {{<<x>> \o o : o \in Orders(S \ {x})} : x \in S}

\* save_processed_ids: the file is rewritten with the joined identifiers, in
\* the iteration order of the set.
SavedFiles(ids) == {[exists |-> TRUE, text |-> Join(o)] : o \in Orders(ids)}

\* load_processed_ids: the set of the file's lines when the file exists,
\* the current set otherwise.
LoadProcessedIds(current, file) ==
    IF file.exists
    THEN {SplitLines(file.text)[i] : i \in 1..Len(SplitLines(file.text))}
    ELSE current

\* No watcher process has run yet.
WatcherDown ==
    /\ wpc = "down"
    /\ processed_ids = {}
    /\ state_file = NoStateFile
    /\ batch = <<>>
    /\ emitted = [id \in Ids |-> 0]
    /\ starts = 0
    /\ result = "none"

\* sanitize_filename has not been called.
NotSanitizing ==
    /\ name = <<>>
    /\ clean = <<>>

\* The vault before any orchestrator is constructed on it: a fresh vault with
\* no directory yet, or a complete one.
Init ==
    /\ dirs \in {{}, AllDirs}
    /\ fs = [d \in AllDirs |-> EmptyDir]
    /\ nextId = 1
    /\ today = 0
    /\ logs = [d \in Days |-> <<>>]
    /\ dashboard = NoDashboard
    /\ regen = 0
    /\ pc = "new"
    /\ mode = "none"
    /\ passOp = "none"
    /\ listed = EmptyDir
    /\ todo = {}
    /\ processed = 0
    /\ failed = {}
    /\ passLog = <<>>
    /\ info = ""
    /\ ops = 0
    /\ watcher_processes = <<>>
    /\ procs = <<>>
    /\ signalled = {}
    /\ WatcherDown
    /\ NotSanitizing

(***************************************************************************)
(* Orchestrator.__init__                                                   *)
(***************************************************************************)
\* folder.mkdir(parents=True, exist_ok=True) for the four folders.
EnsureDirs(ds) == ds \cup AutoCreated

Construct ==
    /\ pc \in {"new", "idle"}
    /\ dirs' = EnsureDirs(dirs)
    /\ watcher_processes' = <<>>
    /\ pc' = "idle"
    /\ UNCHANGED <<fs, nextId, today, watcherVars, logs, dashboard, regen, mode, passVars,
                   ops, procs, signalled>>

(***************************************************************************)
(* The world outside the orchestrator.                                     *)
(***************************************************************************)
\* A watcher's create_action_file writes an Intake file; the opaque processing
\* step writes into Pending_Approval or Done; the human places a file in
\* Approved, or drops one into Inbox.
ExternalDirs == {"Needs_Action", "Pending_Approval", "Approved", "Done"}

\* The count of summary writes since the last lifecycle change, after a
\* change in directory d and after one more write.
AfterChange(count, d) == IF d \in Lifecycle THEN 0 ELSE count
AfterWrite(count) == IF count = 0 THEN 1 ELSE 2

ExternalCreate(d, n) ==
    /\ d \in dirs
    /\ n \notin DOMAIN fs[d]
    /\ nextId <= MaxFiles
    /\ fs' = [fs EXCEPT ![d] = Put(fs[d], n, NewFile(nextId, today))]
    /\ nextId' = nextId + 1
    /\ regen' = AfterChange(regen, d)
    /\ UNCHANGED <<dirs, today, watcherVars, logs, dashboard, pc, mode, passVars, ops,
                   procVars>>

\* Midnight passes: datetime.now() moves to the next date.
DayPasses ==
    /\ today < MaxDay
    /\ today' = today + 1
    /\ UNCHANGED <<fsVars, watcherVars, logs, dashboard, regen, pc, mode, passVars, ops,
                   procVars>>

(***************************************************************************)
(* Orchestrator._log_action, update_dashboard                              *)
(***************************************************************************)
LogEntry(action_type, target) ==
    [action_type |-> action_type, actor |-> "orchestrator", target |-> target,
     result |-> "success"]

\* Mutant: the day's log opened with 'w', so each entry replaces the file.
RewriteLog(l, day, action_type, target) ==
    [l EXCEPT ![day] = <<LogEntry(action_type, target)>>]

\* open(Logs/<today>.jsonl, 'a') and write one line.
AppendLog(l, day, action_type, target) ==
    [l EXCEPT ![day] = Append(l[day], LogEntry(action_type, target))]

\* _is_today: the file's modification date is the current date.
IsToday(file, day) == file.mtime = day

\* The content update_dashboard writes, from the directory counts.
DashboardContent(f, day) ==
    [written |-> TRUE,
     inbox_count |-> Cardinality(DOMAIN f["Inbox"]),
     needs_action_count |-> Cardinality(GlobMd(f, "Needs_Action")),
     pending_count |-> Cardinality(GlobMd(f, "Approved")),
     done_today |-> Cardinality({n \in GlobMd(f, "Done") : IsToday(f["Done"][n], day)}),
     last_updated |-> day]

\* Dashboard.md is written with write_text: the scripts directory must exist.
CanWriteDashboard == "scripts" \in dirs

(***************************************************************************)
(* Watcher supervision: start_file_watcher, stop_all_watchers              *)
(***************************************************************************)
Handles(ps) == {ps[i] : i \in 1..Len(ps)}

\* Mutant: the poll() test inverted.
ToTerminateInverted(ps, st) == {pid \in Handles(ps) : st[pid] # "running"}

\* Mutant: terminate() sent without the poll() test.
ToTerminateAll(ps, st) == Handles(ps)

\* The handles stop_all_watchers terminates: poll() is None.
ToTerminate(ps, st) == {pid \in Handles(ps) : st[pid] = "running"}

StartFileWatcher ==
    /\ pc = "idle"
    /\ Len(procs) < MaxWatchers
    /\ procs' = Append(procs, "running")
    /\ watcher_processes' = Append(watcher_processes, Len(procs) + 1)
    /\ UNCHANGED <<fsVars, today, watcherVars, logs, dashboard, regen, pc, mode, passVars, ops, signalled>>

StopAllWatchers ==
    /\ pc = "idle"
    /\ signalled' = signalled \cup ToTerminate(watcher_processes, procs)
    /\ watcher_processes' = <<>>
    /\ UNCHANGED <<fsVars, today, watcherVars, logs, dashboard, regen, pc, mode, passVars, ops, procs>>

\* A watcher subprocess ends (a crash, or the terminate signal taking effect).
WatcherExits(pid) ==
    /\ pid \in 1..Len(procs)
    /\ procs[pid] = "running"
    /\ procs' = [procs EXCEPT ![pid] = "exited"]
    /\ UNCHANGED <<fsVars, today, watcherVars, logs, dashboard, regen, pc, mode, passVars, ops,
                   watcher_processes, signalled>>

(***************************************************************************)
(* Orchestrator.process_approved, _execute_approved_action                 *)
(***************************************************************************)
\* Mutant: run_once goes from process_approved straight to the summary.
AfterApprovedSkipsIntake == IF mode = "direct" THEN "idle" ELSE "dash"

\* Where a pass called directly returns to, and where run_once goes on.
AfterApproved == IF mode = "direct" THEN "idle" ELSE "pna_list"
AfterNeedsAction == IF mode = "direct" THEN "idle" ELSE "dash"
ModeAfterPass == IF mode = "direct" THEN "none" ELSE mode

\* The pass's locals go out of scope when it returns.
ForgetPass ==
    /\ passOp' = "none"
    /\ listed' = EmptyDir
    /\ todo' = {}
    /\ processed' = 0
    /\ failed' = {}
    /\ passLog' = <<>>
    /\ info' = ""

\* The steps of _execute_approved_action, in order; any of them may raise.
ApprovedSteps == <<"read_text", "_log_action", "rename", "update_dashboard">>

\* Step `step` is among the first k steps of `steps`.
Completed(steps, k, step) == \E i \in 1..k : steps[i] = step

\* Mutant: a copy to Done that leaves the source in Approved.
RenameKeepsSource(f, n) ==
    [f EXCEPT !["Done"] = Put(f["Done"], n, f["Approved"][n])]

\* file_path.rename(self.done / file_path.name): one atomic move, which on
\* POSIX replaces a file of that name already in Done.
RenameToDone(f, n) ==
    [f EXCEPT !["Approved"] = Remove(f["Approved"], n),
              !["Done"] = Put(f["Done"], n, f["Approved"][n])]

\* The first k steps of _execute_approved_action(n) can all complete.
ApprovedFeasible(n, k) ==
    /\ Completed(ApprovedSteps, k, "read_text") => n \in DOMAIN fs["Approved"]
    /\ Completed(ApprovedSteps, k, "_log_action") => "Logs" \in dirs
    /\ Completed(ApprovedSteps, k, "rename") => "Done" \in dirs
    /\ Completed(ApprovedSteps, k, "update_dashboard") => CanWriteDashboard

\* The effect of the first k steps of _execute_approved_action(n).
ApprovedEffect(n, k) ==
    /\ logs' = IF Completed(ApprovedSteps, k, "_log_action")
                THEN AppendLog(logs, today, "execute_approved", n) ELSE logs
    /\ passLog' = IF Completed(ApprovedSteps, k, "_log_action")
                   THEN Append(passLog, LogEntry("execute_approved", n)) ELSE passLog
    /\ fs' = IF Completed(ApprovedSteps, k, "rename") THEN RenameToDone(fs, n) ELSE fs
    /\ dashboard' = IF Completed(ApprovedSteps, k, "update_dashboard")
                     THEN DashboardContent(fs', today) ELSE dashboard
    /\ regen' = IF Completed(ApprovedSteps, k, "update_dashboard")
                 THEN AfterWrite(AfterChange(regen, "Done"))
                 ELSE IF Completed(ApprovedSteps, k, "rename")
                      THEN AfterChange(regen, "Done") ELSE regen

\* The loop's counter after an item that completed k of its steps: the item
\* counts when _execute_approved_action returned, not when it raised.
CountApproved(count, k) == IF k = Len(ApprovedSteps) THEN count + 1 ELSE count

\* What process_approved logs once it has its listing.
ApprovedInfo(files) ==
    IF files = {} THEN "No approved files to process"
    ELSE "Found approved file(s) to execute"

\* files = list(self.approved.glob('*.md'))
ListApproved ==
    /\ pc = "pa_list"
    /\ passOp' = "process_approved"
    /\ listed' = [n \in GlobMd(fs, "Approved") |-> fs["Approved"][n]]
    /\ todo' = GlobMd(fs, "Approved")
    /\ processed' = 0
    /\ failed' = {}
    /\ passLog' = <<>>
    /\ info' = ApprovedInfo(GlobMd(fs, "Approved"))
    /\ pc' = "pa_loop"
    /\ UNCHANGED <<fsVars, today, watcherVars, logs, dashboard, regen, mode, ops, procVars>>

\* One iteration of the loop of process_approved: the item completes
\* (k = all its steps) or raises after k steps, which the loop catches.
ExecuteApproved(n, k) ==
    /\ pc = "pa_loop"
    /\ n \in todo
    /\ k \in 0..Len(ApprovedSteps)
    /\ ApprovedFeasible(n, k)
    /\ ApprovedEffect(n, k)
    /\ todo' = todo \ {n}
    /\ processed' = CountApproved(processed, k)
    /\ failed' = IF k = Len(ApprovedSteps) THEN failed ELSE failed \cup {n}
    /\ UNCHANGED <<dirs, nextId, today, watcherVars, pc, mode, passOp, listed, info, ops, procVars>>

\* return processed (0 for an empty listing): the loop is over.
ReturnApproved ==
    /\ pc = "pa_loop"
    /\ todo = {}
    /\ pc' = AfterApproved
    /\ mode' = ModeAfterPass
    /\ ForgetPass
    /\ UNCHANGED <<fsVars, today, watcherVars, logs, dashboard, regen, ops, procVars>>

(***************************************************************************)
(* Orchestrator.process_needs_action, _process_single_file                 *)
(***************************************************************************)
\* The steps of _process_single_file, in order; any of them may raise.
NeedsActionSteps == <<"read_text", "_log_action", "write_plan", "update_dashboard">>

\* Mutant: the Intake file is moved to Pending_Approval once planned.
WritePlanAndMove(f, n, day) ==
    [f EXCEPT !["Plans"] = Put(f["Plans"], PlanName(n), PlanFile(n, day)),
              !["Needs_Action"] = Remove(f["Needs_Action"], n),
              !["Pending_Approval"] = Put(f["Pending_Approval"], n, f["Needs_Action"][n])]

\* Mutant: the Plan's path carries the date it was written on.
WritePlanDated(f, n, day) ==
    [f EXCEPT !["Plans"] =
        Put(f["Plans"], [stem |-> PlanName(n).stem \o "_" \o ToString(day), suffix |-> ".md"],
            PlanFile(n, day))]

\* Mutant: once a Plan is written, Intake is emptied.
WritePlanClearsIntake(f, n, day) ==
    [f EXCEPT !["Plans"] = Put(f["Plans"], PlanName(n), PlanFile(n, day)),
              !["Needs_Action"] = EmptyDir]

\* plan_path.write_text(plan_content): creates or overwrites the Plan; the
\* Intake file itself is left where it is.
WritePlan(f, n, day) ==
    [f EXCEPT !["Plans"] = Put(f["Plans"], PlanName(n), PlanFile(n, day))]

NeedsActionFeasible(n, k) ==
    /\ Completed(NeedsActionSteps, k, "read_text") => n \in DOMAIN fs["Needs_Action"]
    /\ Completed(NeedsActionSteps, k, "_log_action") => "Logs" \in dirs
    /\ Completed(NeedsActionSteps, k, "write_plan") => "Plans" \in dirs
    /\ Completed(NeedsActionSteps, k, "update_dashboard") => CanWriteDashboard

NeedsActionEffect(n, k) ==
    /\ logs' = IF Completed(NeedsActionSteps, k, "_log_action")
                THEN AppendLog(logs, today, "process_file", n) ELSE logs
    /\ passLog' = IF Completed(NeedsActionSteps, k, "_log_action")
                   THEN Append(passLog, LogEntry("process_file", n)) ELSE passLog
    /\ fs' = IF Completed(NeedsActionSteps, k, "write_plan")
              THEN WritePlan(fs, n, today) ELSE fs
    /\ dashboard' = IF Completed(NeedsActionSteps, k, "update_dashboard")
                     THEN DashboardContent(fs', today) ELSE dashboard
    /\ regen' = IF Completed(NeedsActionSteps, k, "update_dashboard")
                 THEN AfterWrite(AfterChange(regen, "Plans"))
                 ELSE IF Completed(NeedsActionSteps, k, "write_plan")
                      THEN AfterChange(regen, "Plans") ELSE regen

\* Mutant: processed += 1 moved out of the try block.
CountEveryItem(count, k) == count + 1

\* The loop's counter after an item that completed k of its steps.
CountNeedsAction(count, k) == IF k = Len(NeedsActionSteps) THEN count + 1 ELSE count

\* Mutant: the empty listing is not told apart.
NeedsActionInfoSilent(files) == "Found file(s) to process"

\* What process_needs_action logs once it has its listing.
NeedsActionInfo(files) ==
    IF files = {} THEN "No files to process in Needs_Action"
    ELSE "Found file(s) to process"

\* files = list(self.needs_action.glob('*.md'))
ListNeedsAction ==
    /\ pc = "pna_list"
    /\ passOp' = "process_needs_action"
    /\ listed' = [n \in GlobMd(fs, "Needs_Action") |-> fs["Needs_Action"][n]]
    /\ todo' = GlobMd(fs, "Needs_Action")
    /\ processed' = 0
    /\ failed' = {}
    /\ passLog' = <<>>
    /\ info' = NeedsActionInfo(GlobMd(fs, "Needs_Action"))
    /\ pc' = "pna_loop"
    /\ UNCHANGED <<fsVars, today, watcherVars, logs, dashboard, regen, mode, ops, procVars>>

\* One iteration of the loop of process_needs_action.
ProcessSingleFile(n, k) ==
    /\ pc = "pna_loop"
    /\ n \in todo
    /\ k \in 0..Len(NeedsActionSteps)
    /\ NeedsActionFeasible(n, k)
    /\ NeedsActionEffect(n, k)
    /\ todo' = todo \ {n}
    /\ processed' = CountNeedsAction(processed, k)
    /\ failed' = IF k = Len(NeedsActionSteps) THEN failed ELSE failed \cup {n}
    /\ UNCHANGED <<dirs, nextId, today, watcherVars, pc, mode, passOp, listed, info, ops, procVars>>

\* return processed (0 for an empty listing): the loop is over.
ReturnNeedsAction ==
    /\ pc = "pna_loop"
    /\ todo = {}
    /\ pc' = AfterNeedsAction
    /\ mode' = ModeAfterPass
    /\ ForgetPass
    /\ UNCHANGED <<fsVars, today, watcherVars, logs, dashboard, regen, ops, procVars>>

(***************************************************************************)
(* The entry points: direct calls, run_once, run_continuous                *)
(***************************************************************************)
\* orchestrator.process_approved() called on its own (--approved).
CallProcessApproved ==
    /\ pc = "idle"
    /\ ops < MaxOps
    /\ pc' = "pa_list"
    /\ mode' = "direct"
    /\ ops' = ops + 1
    /\ UNCHANGED <<fsVars, today, watcherVars, logs, dashboard, regen, passVars, procVars>>

\* orchestrator.process_needs_action() called on its own (--process).
CallProcessNeedsAction ==
    /\ pc = "idle"
    /\ ops < MaxOps
    /\ pc' = "pna_list"
    /\ mode' = "direct"
    /\ ops' = ops + 1
    /\ UNCHANGED <<fsVars, today, watcherVars, logs, dashboard, regen, passVars, procVars>>

\* orchestrator.update_dashboard() called on its own (--dashboard); when the
\* write raises, the exception goes to the caller and nothing is written.
CallUpdateDashboard ==
    /\ pc = "idle"
    /\ \/ /\ CanWriteDashboard
          /\ dashboard' = DashboardContent(fs, today)
          /\ regen' = AfterWrite(regen)
       \/ UNCHANGED <<dashboard, regen>>
    /\ UNCHANGED <<fsVars, today, watcherVars, logs, pc, mode, passVars, ops, procVars>>

\* run_once(): process_approved first.
RunOnce ==
    /\ pc = "idle"
    /\ ops < MaxOps
    /\ pc' = "pa_list"
    /\ mode' = "once"
    /\ ops' = ops + 1
    /\ UNCHANGED <<fsVars, today, watcherVars, logs, dashboard, regen, passVars, procVars>>

\* run_continuous(): the first run_once of the loop.
RunContinuous ==
    /\ pc = "idle"
    /\ ops < MaxCycles
    /\ pc' = "pa_list"
    /\ mode' = "continuous"
    /\ ops' = ops + 1
    /\ UNCHANGED <<fsVars, today, watcherVars, logs, dashboard, regen, passVars, procVars>>

\* Where an exception raised by run_once's own update_dashboard() ends up:
\* nothing in run_once or run_continuous catches it.
AfterDashboardError == IF mode = "continuous" THEN "crashed" ELSE "idle"

\* The last step of run_once: self.update_dashboard().
RunOnceDashboard ==
    /\ pc = "dash"
    /\ \/ /\ CanWriteDashboard
          /\ dashboard' = DashboardContent(fs, today)
          /\ regen' = AfterWrite(regen)
          /\ pc' = IF mode = "continuous" THEN "sleep" ELSE "idle"
          /\ mode' = IF mode = "continuous" THEN mode ELSE "none"
       \/ /\ UNCHANGED <<dashboard, regen>>
          /\ pc' = AfterDashboardError
          /\ mode' = "none"
    /\ UNCHANGED <<fsVars, today, watcherVars, logs, passVars, ops, procVars>>

\* time.sleep(interval) ends and the loop calls run_once again.
Wake ==
    /\ pc = "sleep"
    /\ ops < MaxCycles
    /\ pc' = "pa_list"
    /\ ops' = ops + 1
    /\ UNCHANGED <<fsVars, today, watcherVars, logs, dashboard, regen, mode, passVars, procVars>>

\* except KeyboardInterrupt: stop_all_watchers(), and run_continuous returns.
\* The loops of the passes catch Exception only, so a KeyboardInterrupt
\* raised inside an item reaches this handler too.
StopOnInterrupt ==
    /\ signalled' = signalled \cup ToTerminate(watcher_processes, procs)
    /\ watcher_processes' = <<>>
    /\ pc' = "stopped"
    /\ mode' = "none"
    /\ UNCHANGED procs

\* The stop signal arrives between two items, before a listing, before the
\* summary or during the sleep.
InterruptBetween ==
    /\ mode = "continuous"
    /\ pc \in {"pa_list", "pa_loop", "pna_list", "pna_loop", "dash", "sleep"}
    /\ StopOnInterrupt
    /\ ForgetPass
    /\ UNCHANGED <<fsVars, today, watcherVars, logs, dashboard, regen, ops>>

\* The stop signal arrives inside _execute_approved_action(n), after k steps.
InterruptApproved(n, k) ==
    /\ mode = "continuous"
    /\ pc = "pa_loop"
    /\ n \in todo
    /\ k \in 1..(Len(ApprovedSteps) - 1)
    /\ ApprovedFeasible(n, k)
    /\ ApprovedEffect(n, k)
    /\ StopOnInterrupt
    /\ todo' = todo \ {n}
    /\ UNCHANGED <<dirs, nextId, today, watcherVars, passOp, listed, info, processed, failed, ops>>

\* The stop signal arrives inside _process_single_file(n), after k steps.
InterruptNeedsAction(n, k) ==
    /\ mode = "continuous"
    /\ pc = "pna_loop"
    /\ n \in todo
    /\ k \in 1..(Len(NeedsActionSteps) - 1)
    /\ NeedsActionFeasible(n, k)
    /\ NeedsActionEffect(n, k)
    /\ StopOnInterrupt
    /\ todo' = todo \ {n}
    /\ UNCHANGED <<dirs, nextId, today, watcherVars, passOp, listed, info, processed, failed, ops>>

(***************************************************************************)
(* Specifications                                                          *)
(***************************************************************************)
\* The lifecycle driven through the orchestrator's one-shot entry points.
Next ==
    \/ Construct
    \/ \E d \in {"Needs_Action", "Approved", "Done"}, n \in Names : ExternalCreate(d, n)
    \/ CallProcessApproved
    \/ CallProcessNeedsAction
    \/ CallUpdateDashboard
    \/ RunOnce
    \/ ListApproved
    \/ \E n \in Names, k \in 0..Len(ApprovedSteps) : ExecuteApproved(n, k)
    \/ ReturnApproved
    \/ ListNeedsAction
    \/ \E n \in Names, k \in 0..Len(NeedsActionSteps) : ProcessSingleFile(n, k)
    \/ ReturnNeedsAction
    \/ RunOnceDashboard

Spec == Init /\ [][Next]_vars

\* A vault that already holds files when the orchestrator starts: some of
\* a.md and a.txt approved, b.md possibly in Intake.
MdA == [stem |-> "a", suffix |-> ".md"]
TxtA == [stem |-> "a", suffix |-> ".txt"]
MdB == [stem |-> "b", suffix |-> ".md"]

PreVault(approved, intake) ==
    [d \in AllDirs |->
        IF d = "Approved" THEN [n \in approved |-> NewFile(IF n = MdA THEN 1 ELSE 2, 0)]
        ELSE IF d = "Needs_Action" THEN [n \in intake |-> NewFile(3, 0)]
        ELSE EmptyDir]

ContinuousInit ==
    /\ dirs \in {{}, AllDirs}
    /\ fs \in IF dirs = {}
              THEN {[d \in AllDirs |-> EmptyDir]}
              ELSE {PreVault(a, i) : a \in SUBSET {MdA, TxtA}, i \in SUBSET {MdB}}
    /\ nextId = MaxFiles + 1
    /\ today = 0
    /\ logs = [d \in Days |-> <<>>]
    /\ dashboard = NoDashboard
    /\ regen = 0
    /\ pc = "new"
    /\ mode = "none"
    /\ passOp = "none"
    /\ listed = EmptyDir
    /\ todo = {}
    /\ processed = 0
    /\ failed = {}
    /\ passLog = <<>>
    /\ info = ""
    /\ ops = 0
    /\ watcher_processes = <<>>
    /\ procs = <<>>
    /\ signalled = {}
    /\ WatcherDown
    /\ NotSanitizing

\* Continuous mode with supervised watcher subprocesses and the stop signal.
ContinuousNext ==
    \/ Construct
    \/ StartFileWatcher
    \/ StopAllWatchers
    \/ \E pid \in 1..MaxWatchers : WatcherExits(pid)
    \/ RunContinuous
    \/ ListApproved
    \/ \E n \in Names, k \in 0..Len(ApprovedSteps) : ExecuteApproved(n, k)
    \/ ReturnApproved
    \/ ListNeedsAction
    \/ \E n \in Names, k \in 0..Len(NeedsActionSteps) : ProcessSingleFile(n, k)
    \/ ReturnNeedsAction
    \/ RunOnceDashboard
    \/ Wake
    \/ InterruptBetween
    \/ \E n \in Names, k \in 1..Len(ApprovedSteps) : InterruptApproved(n, k)
    \/ \E n \in Names, k \in 1..Len(NeedsActionSteps) : InterruptNeedsAction(n, k)

ContinuousSpec == ContinuousInit /\ [][ContinuousNext]_vars

(***************************************************************************)
(* The watcher process: BaseWatcher.run around a concrete watcher          *)
(***************************************************************************)
\* What check_for_updates can return: any items of the source, one it
\* returned before included.
Batches == UNION {[1..k -> Ids] : k \in 0..MaxBatch}

\* The concrete watcher is started: BaseWatcher.__init__ creates Logs and
\* Needs_Action and starts from an empty set, then the Processed-ID set is
\* loaded from the state file.
ConcreteStartup == LoadProcessedIds({}, state_file)

\* The concrete watcher's create_action_file consults the Processed-ID set.
AlreadyProcessed(item) == item \in processed_ids

\* The concrete watcher's create_action_file on a new item: the Action File
\* is written into Intake, the identifier recorded and the set saved.
ConcreteCreate(item) ==
    /\ emitted' = [emitted EXCEPT ![item] = emitted[item] + 1]
    /\ processed_ids' = processed_ids \cup {item}
    /\ state_file' \in SavedFiles(processed_ids')

\* The watcher process is started, or killed wherever it is and restarted.
WatcherStart ==
    /\ starts < MaxStarts
    /\ starts' = starts + 1
    /\ dirs' = dirs \cup {"Logs", "Needs_Action"}
    /\ processed_ids' = ConcreteStartup
    /\ batch' = <<>>
    /\ wpc' = "check"
    /\ result' = "none"
    /\ UNCHANGED <<fs, nextId, orchVars, state_file, emitted, sanitizeVars>>

\* Mutant: an exception of check_for_updates ends the run loop.
StopOnCheckError == "down"

\* except Exception around the iteration: the error is logged and the loop
\* goes on to time.sleep.
AfterCheckError == "sleep"

\* Mutant: an exception of create_action_file abandons the rest of the batch.
AbortOnCreateError(items) == <<>>

\* except Exception inside `for item in items`: the error is logged and the
\* loop goes on with the items after the one that raised.
AfterCreateError(items) == Tail(items)

\* items = self.check_for_updates(): it raises (logged, on to the sleep) or
\* returns a batch; an empty one goes to the sleep as well.
CheckForUpdates ==
    /\ wpc = "check"
    /\ \/ /\ batch' = <<>>
          /\ wpc' = AfterCheckError
          /\ result' = "check_error"
       \/ \E items \in Batches :
             /\ batch' = items
             /\ wpc' = IF items = <<>> THEN "sleep" ELSE "items"
             /\ result' = "checked"
    /\ UNCHANGED <<fsVars, orchVars, processed_ids, state_file, emitted, starts,
                   sanitizeVars>>

\* One iteration of `for item in items`: create_action_file(item) returns
\* or raises (logged), and the loop goes on with the next item.
CreateActionFile ==
    /\ wpc = "items"
    /\ batch # <<>>
    /\ \/ /\ ~AlreadyProcessed(Head(batch))
          /\ ConcreteCreate(Head(batch))
          /\ result' = "created"
          /\ batch' = Tail(batch)
       \/ /\ AlreadyProcessed(Head(batch))
          /\ UNCHANGED <<emitted, processed_ids, state_file>>
          /\ result' = "skipped"
          /\ batch' = Tail(batch)
       \/ /\ UNCHANGED <<emitted, processed_ids, state_file>>
          /\ result' = "create_error"
          /\ batch' = AfterCreateError(batch)
    /\ wpc' = IF batch' = <<>> THEN "sleep" ELSE "items"
    /\ UNCHANGED <<fsVars, orchVars, starts, sanitizeVars>>

\* time.sleep(self.check_interval) ends.
WatcherSleep ==
    /\ wpc = "sleep"
    /\ wpc' = "check"
    /\ result' = "none"
    /\ UNCHANGED <<fsVars, orchVars, processed_ids, state_file, batch, emitted, starts,
                   sanitizeVars>>

WatcherNext ==
    \/ WatcherStart
    \/ CheckForUpdates
    \/ CreateActionFile
    \/ WatcherSleep

WatcherSpec == Init /\ [][WatcherNext]_vars

\* One iteration of `while True` after another: a call that was made returns
\* or raises, and time.sleep ends.
RunLoopStep ==
    \/ CheckForUpdates
    \/ CreateActionFile
    \/ WatcherSleep

\* The watcher process started once and left to run.
WatcherLiveNext ==
    \/ (WatcherStart /\ wpc = "down")
    \/ RunLoopStep

WatcherLiveSpec == Init /\ [][WatcherLiveNext]_vars /\ WF_vars(RunLoopStep)

(***************************************************************************)
(* Continuous mode running for ever, with no I/O failure                   *)
(***************************************************************************)
\* time.sleep(interval) ends and `while True` calls run_once again, however
\* many cycles have run.
NextCycle ==
    /\ pc = "sleep"
    /\ pc' = "pa_list"
    /\ UNCHANGED <<fsVars, today, watcherVars, logs, dashboard, regen, mode, passVars,
                   ops, procVars>>

\* The steps of run_continuous when every file operation succeeds: each
\* approved item completes all its steps and the summary is written. Intake
\* holds no file here, so process_needs_action has no item to process.
ContinuousStep ==
    \/ Construct
    \/ RunContinuous
    \/ ListApproved
    \/ \E n \in Names : ExecuteApproved(n, Len(ApprovedSteps))
    \/ ReturnApproved
    \/ ListNeedsAction
    \/ ReturnNeedsAction
    \/ (RunOnceDashboard /\ pc' = "sleep")
    \/ NextCycle

\* The human places files in Approved while the cycles run, and days pass.
LiveNext ==
    \/ ContinuousStep
    \/ \E n \in Names : ExternalCreate("Approved", n)
    \/ DayPasses

\* A vault with all its directories.
LiveInit == Init /\ dirs = AllDirs

\* The orchestrator always takes its next step.
LiveSpec ==
    /\ LiveInit
    /\ [][LiveNext]_vars
    /\ WF_vars(ContinuousStep)

(***************************************************************************)
(* BaseWatcher.sanitize_filename                                           *)
(***************************************************************************)
\* A string is a sequence of characters; a character is written as itself,
\* or as its code point when it is outside ASCII.
\* invalid_chars = '<>:"/\\|?*' in the source, where the eighth character is
\* U+FF1F, the full-width question mark, and not the ASCII one.
invalid_chars == <<"<", ">", ":", "\"", "/", "\\", "|", "U+FF1F", "*">>

\* Characters str.strip() removes.
Whitespace == {" ", "\t"}

\* The characters strings are drawn from: those of invalid_chars, the ASCII
\* question mark, the full-width less-than sign, whitespace and a letter.
Alphabet ==
    {invalid_chars[i] : i \in 1..Len(invalid_chars)}
        \cup {"?", "U+FF1C"} \cup Whitespace \cup {"x"}

Strings == UNION {[1..k -> Alphabet] : k \in 0..MaxName}

\* name.replace(char, '_')
Replace(s, char) == [i \in 1..Len(s) |-> IF s[i] = char THEN "_" ELSE s[i]]

\* for char in invalid_chars: name = name.replace(char, '_')
RECURSIVE ReplaceEach(_, _)
ReplaceEach(s, chars) ==
    IF chars = <<>> THEN s
    ELSE ReplaceEach(Replace(s, Head(chars)), Tail(chars))

\* Mutant: at most one whitespace character is removed from each end.
StripOne(s) ==
    IF s = <<>> THEN s
    ELSE IF Len(s) = 1 THEN (IF s[1] \in Whitespace THEN <<>> ELSE s)
    ELSE SubSeq(s, IF s[1] \in Whitespace THEN 2 ELSE 1,
                   IF s[Len(s)] \in Whitespace THEN Len(s) - 1 ELSE Len(s))

\* name.strip(): leading and trailing whitespace removed.
RECURSIVE Strip(_)
Strip(s) ==
    IF s = <<>> THEN s
    ELSE IF s[1] \in Whitespace THEN Strip(Tail(s))
    ELSE IF s[Len(s)] \in Whitespace THEN Strip(SubSeq(s, 1, Len(s) - 1))
    ELSE s

sanitize_filename(s) == Strip(ReplaceEach(s, invalid_chars))

\* sanitize_filename is called on the string, then on what it returned.
SanitizeFilename ==
    /\ Len(clean) < 2
    /\ clean' = Append(clean, sanitize_filename(IF clean = <<>> THEN name
                                                ELSE clean[Len(clean)]))
    /\ UNCHANGED <<fsVars, orchVars, wpc, processed_ids, state_file, batch, emitted,
                   starts, result, name>>

\* Any string can be given to sanitize_filename.
SanitizeInit ==
    /\ dirs = AllDirs
    /\ fs = [d \in AllDirs |-> EmptyDir]
    /\ nextId = 1
    /\ today = 0
    /\ logs = [d \in Days |-> <<>>]
    /\ dashboard = NoDashboard
    /\ regen = 0
    /\ pc = "new"
    /\ mode = "none"
    /\ passOp = "none"
    /\ listed = EmptyDir
    /\ todo = {}
    /\ processed = 0
    /\ failed = {}
    /\ passLog = <<>>
    /\ info = ""
    /\ ops = 0
    /\ watcher_processes = <<>>
    /\ procs = <<>>
    /\ signalled = {}
    /\ WatcherDown
    /\ name \in Strings
    /\ clean = <<>>

SanitizeSpec == SanitizeInit /\ [][SanitizeFilename]_vars

(***************************************************************************)
(* The summary regenerated on demand (--dashboard)                         *)
(***************************************************************************)
\* Files arrive in Inbox and in the lifecycle directories, days pass, and
\* update_dashboard is called at any time.
SummaryNext ==
    \/ Construct
    \/ \E d \in ExternalDirs \cup {"Inbox"}, n \in Names : ExternalCreate(d, n)
    \/ DayPasses
    \/ CallUpdateDashboard

SummarySpec == Init /\ [][SummaryNext]_vars

(***************************************************************************)
(* The one-shot operations on a vault that holds files, across midnight    *)
(***************************************************************************)
DailyNext ==
    \/ Construct
    \/ DayPasses
    \/ CallProcessApproved
    \/ CallProcessNeedsAction
    \/ RunOnce
    \/ ListApproved
    \/ \E n \in Names, k \in 0..Len(ApprovedSteps) : ExecuteApproved(n, k)
    \/ ReturnApproved
    \/ ListNeedsAction
    \/ \E n \in Names, k \in 0..Len(NeedsActionSteps) : ProcessSingleFile(n, k)
    \/ ReturnNeedsAction
    \/ RunOnceDashboard

DailySpec == ContinuousInit /\ [][DailyNext]_vars

(***************************************************************************)
(* Watcher supervision on its own                                          *)
(***************************************************************************)
\* One orchestrator starts watchers and stops them all, in any order, while
\* the subprocesses it spawned write Intake files as long as one of them
\* runs, and exit on their own or once terminated.
SuperviseNext ==
    \/ (Construct /\ pc = "new")
    \/ StartFileWatcher
    \/ StopAllWatchers
    \/ \E pid \in 1..MaxWatchers : WatcherExits(pid)
    \/ \E pid \in 1..Len(procs), n \in Names :
          procs[pid] = "running" /\ ExternalCreate("Needs_Action", n)

SuperviseSpec == Init /\ [][SuperviseNext]_vars

(***************************************************************************)
(* Cycle after cycle over an Intake that no longer changes                 *)
(***************************************************************************)
\* Intake is filled before the orchestrator is constructed and left alone
\* afterwards; run_continuous then lists it in every cycle, items may raise,
\* and days pass between one cycle and the next.
RepeatNext ==
    \/ Construct
    \/ \E n \in Names : pc = "new" /\ ExternalCreate("Needs_Action", n)
    \/ (DayPasses /\ pc = "sleep")
    \/ RunContinuous
    \/ ListApproved
    \/ ReturnApproved
    \/ ListNeedsAction
    \/ \E n \in Names, k \in 0..Len(NeedsActionSteps) : ProcessSingleFile(n, k)
    \/ ReturnNeedsAction
    \/ RunOnceDashboard
    \/ Wake

RepeatSpec == Init /\ [][RepeatNext]_vars

(***************************************************************************)
(* Watchers writing into Intake while the orchestrator lists it            *)
(***************************************************************************)
\* files = list(self.needs_action.glob('*.md')) reads the directory entry by
\* entry with no lock. The scan starts: the entries present now will all be
\* returned.
GlobBegins ==
    /\ pc = "pna_list"
    /\ passOp' = "process_needs_action"
    /\ listed' = [n \in GlobMd(fs, "Needs_Action") |-> fs["Needs_Action"][n]]
    /\ pc' = "pna_scan"
    /\ UNCHANGED <<fsVars, today, watcherVars, logs, dashboard, regen, mode, todo,
                   processed, failed, passLog, info, ops, procVars>>

\* The scan ends: of the entries written while it ran, those in `late` were
\* returned as well and the others were missed.
GlobEnds(late) ==
    /\ pc = "pna_scan"
    /\ late \subseteq GlobMd(fs, "Needs_Action") \ DOMAIN listed
    /\ listed' = [n \in (DOMAIN listed) \cup late |->
                     IF n \in late THEN fs["Needs_Action"][n] ELSE listed[n]]
    /\ todo' = (DOMAIN listed) \cup late
    /\ processed' = 0
    /\ failed' = {}
    /\ passLog' = <<>>
    /\ info' = NeedsActionInfo((DOMAIN listed) \cup late)
    /\ pc' = "pna_loop"
    /\ UNCHANGED <<fsVars, today, watcherVars, logs, dashboard, regen, mode, passOp, ops,
                   procVars>>

\* The steps of run_continuous when every file operation succeeds, for as
\* many cycles as the model runs.
RaceStep ==
    \/ Construct
    \/ RunContinuous
    \/ ListApproved
    \/ ReturnApproved
    \/ GlobBegins
    \/ \E late \in SUBSET Names : GlobEnds(late)
    \/ \E n \in Names : ProcessSingleFile(n, Len(NeedsActionSteps))
    \/ ReturnNeedsAction
    \/ (RunOnceDashboard /\ pc' = "sleep")
    \/ Wake

\* A watcher's create_action_file writes a .md action file into Intake, at
\* any moment.
RaceNext ==
    \/ RaceStep
    \/ \E n \in Names : IsMd(n) /\ ExternalCreate("Needs_Action", n)

\* The orchestrator always takes its next step; the watchers owe nothing.
RaceSpec ==
    /\ LiveInit
    /\ [][RaceNext]_vars
    /\ WF_vars(RaceStep)

(***************************************************************************)
(* Properties                                                              *)
(***************************************************************************)
\* The lifecycle places (directory, name) that hold the file of identity id.
AllNames == Names \cup {PlanName(n) : n \in Names}
Places(f, id) ==
    {p \in Lifecycle \X AllNames : p[2] \in DOMAIN f[p[1]] /\ f[p[1]][p[2]].id = id}

\* process_approved has finished its loop and is about to return `processed`.
ApprovedReturns == pc = "pa_loop" /\ todo = {}
NeedsActionReturns == pc = "pna_loop" /\ todo = {}

EntriesFor(action_type, n) ==
    {i \in 1..Len(passLog) : passLog[i] = LogEntry(action_type, n)}

\* C1: when process_approved returns and no item raised, every file it listed
\* has left Approved, is in Done under the same name, got exactly one
\* execute_approved/success log entry during the pass, and the returned
\* count is the number of files moved.
C1_ApprovedAllMoved ==
    (ApprovedReturns /\ failed = {}) =>
        /\ \A n \in DOMAIN listed :
              /\ ~(n \in DOMAIN fs["Approved"] /\ fs["Approved"][n].id = listed[n].id)
              /\ n \in DOMAIN fs["Done"]
              /\ fs["Done"][n] = listed[n]
              /\ Cardinality(EntriesFor("execute_approved", n)) = 1
        /\ processed = Cardinality(DOMAIN listed)
        /\ Len(passLog) = Cardinality(DOMAIN listed)

C1_Witness ==
    /\ ApprovedReturns
    /\ failed = {}
    /\ Cardinality(DOMAIN listed) >= 2

\* C2: every Action File created so far is in exactly one place of the five
\* lifecycle directories: never in none, never in two.
C2_LocationIsState ==
    \A id \in 1..(nextId - 1) : Cardinality(Places(fs, id)) = 1

\* C3: when process_approved returns, every file whose processing raised is
\* still in Approved, unchanged, and is not in Done.
C3_FailedStaysInApproved ==
    ApprovedReturns =>
        \A n \in failed :
            /\ n \in DOMAIN fs["Approved"]
            /\ fs["Approved"][n] = listed[n]
            /\ ~(n \in DOMAIN fs["Done"] /\ fs["Done"][n].id = listed[n].id)

\* C4: when process_needs_action returns and exactly one of the N listed
\* files raised, the count returned is N-1 and every other listed file has
\* its Plan.
C4_PartialBatch ==
    (NeedsActionReturns /\ Cardinality(failed) = 1) =>
        /\ processed = Cardinality(DOMAIN listed) - 1
        /\ \A n \in (DOMAIN listed) \ failed :
              /\ PlanName(n) \in DOMAIN fs["Plans"]
              /\ fs["Plans"][PlanName(n)].source_file = n

C4_Witness ==
    /\ NeedsActionReturns
    /\ Cardinality(failed) = 1
    /\ Cardinality(DOMAIN listed) >= 2

\* C5: once an Orchestrator has been constructed, all required lifecycle
\* directories exist.
C5_RequiredDirsExist == pc # "new" => Required \subseteq dirs

\* C6: in continuous mode nothing but the stop signal ends the loop: no
\* failure inside a cycle takes the orchestrator out of run_continuous.
C6_ErrorsContained ==
    [][mode = "continuous" => (mode' = "continuous" \/ pc' = "stopped")]_vars

\* C7: when the stop signal ends run_continuous, every recorded handle still
\* running has been sent a terminate signal and the handle list is empty.
C7_StopTerminatesWatchers ==
    [][(mode = "continuous" /\ pc' = "stopped") =>
          /\ \A pid \in Handles(watcher_processes) :
                (procs[pid] = "running") <=> (pid \in signalled')
          /\ watcher_processes' = <<>>]_vars

C7_Witness ==
    /\ pc = "stopped"
    /\ signalled # {}
    /\ \E pid \in 1..Len(procs) : pid \notin signalled

\* C8: no step removes or replaces an Action File: every file in a lifecycle
\* directory before a step is still in one after it.
C8_NeverDeletes ==
    [][\A d \in Lifecycle : \A n \in DOMAIN fs[d] :
          Places(fs', fs[d][n].id) # {}]_vars

\* C9: processing an Intake file leaves every file of Intake,
\* Pending_Approval, Approved and Done as it was; it changes at most the
\* file's own Plan, appends at most one process_file entry for it to the
\* log, and leaves no other Plan touched.
C9_IntakeFrame ==
    [][(pc = "pna_loop" /\ todo' # todo) =>
          \E n \in todo :
              /\ todo' = todo \ {n}
              /\ \A d \in AllDirs \ {"Plans"} : fs'[d] = fs[d]
              /\ n \in DOMAIN fs'["Needs_Action"]
              /\ DOMAIN fs'["Plans"] \subseteq (DOMAIN fs["Plans"]) \cup {PlanName(n)}
              /\ \A m \in DOMAIN fs["Plans"] :
                    m # PlanName(n) => fs'["Plans"][m] = fs["Plans"][m]
              /\ logs' \in {logs, AppendLog(logs, today, "process_file", n)}]_vars

C9_Witness ==
    /\ pc = "pna_loop"
    /\ processed >= 1
    /\ \E n \in DOMAIN listed : PlanName(n) \in DOMAIN fs["Plans"]

\* C10: for every identifier, at most one Action File is ever created in
\* Intake, across run loops and restarts of the watcher.
C10_NoDoubleIntake == \A id \in Ids : emitted[id] <= 1

\* C11: while no lifecycle directory has changed since update_dashboard wrote
\* the summary, the value it reports as awaiting approval is the number of
\* files in Pending_Approval and its pending-tasks value is the number of
\* markdown files in Intake.
C11_SummaryCounts ==
    regen >= 1 =>
        /\ dashboard.pending_count = Cardinality(DOMAIN fs["Pending_Approval"])
        /\ dashboard.needs_action_count = Cardinality(GlobMd(fs, "Needs_Action"))

\* A step that leaves every lifecycle directory as it was and is the second
\* (or a later) summary write since one last changed.
RegeneratedAgain ==
    /\ regen >= 1
    /\ regen' = 2
    /\ \A d \in Lifecycle : fs'[d] = fs[d]

\* C17: update_dashboard called again with no change to any
\* lifecycle directory in between writes the same content, the timestamp
\* apart.
C17_IdempotentSummary ==
    [][RegeneratedAgain =>
          dashboard' = [dashboard EXCEPT !.last_updated = dashboard'.last_updated]]_vars

\* The place of each step of run_once in its order; 6 is outside a cycle.
CycleRank(p) ==
    CASE p = "pa_list" -> 1
      [] p = "pa_loop" -> 2
      [] p = "pna_list" -> 3
      [] p = "pna_loop" -> 4
      [] p = "dash" -> 5
      [] OTHER -> 6

\* C12: inside run_once the steps come in the fixed order process_approved,
\* process_needs_action, update_dashboard: the approved loop is left only
\* when every listed file has been attempted, a Plan is written only in the
\* intake loop that follows it, and the step that ends the cycle is the
\* summary write, which touches no directory and no log.
C12_RunOnceOrder ==
    [][(mode \in {"once", "continuous"} /\ CycleRank(pc) <= 5 /\ pc' # "stopped") =>
          /\ pc' # pc => CycleRank(pc') = CycleRank(pc) + 1
          /\ (pc = "pa_loop" /\ pc' # pc) => todo = {}
          /\ fs'["Plans"] # fs["Plans"] => pc = "pna_loop"
          /\ (pc = "dash" /\ pc' # pc) =>
                /\ fs' = fs
                /\ logs' = logs
                /\ dashboard' \in {dashboard, DashboardContent(fs, today)}]_vars

\* A whole run_once is over: an approved file was moved, a Plan drafted, and
\* the summary written twice in a row (by the last item, then by run_once).
C12_Witness ==
    /\ pc = "idle"
    /\ ops = 1
    /\ regen = 2
    /\ fs["Plans"] # EmptyDir
    /\ \E i \in 1..Len(logs[today]) : logs[today][i].action_type = "execute_approved"

IsPrefix(s, t) == Len(s) <= Len(t) /\ SubSeq(t, 1, Len(s)) = s

\* C13: across every step each day's log keeps its earlier content as a
\* prefix, and a step of the orchestrator that changes a lifecycle directory
\* (a file moved to Done, a Plan written) appends exactly one Log Entry, for
\* the file it handled, to the current day's log and touches no other day's.
C13_LogAppendOnly ==
    [][/\ \A day \in Days : IsPrefix(logs[day], logs'[day])
       /\ (\E d \in Lifecycle : fs'[d] # fs[d]) =>
             \E n \in todo \ todo' :
                 /\ logs'[today] = Append(logs[today],
                        LogEntry(IF pc = "pa_loop" THEN "execute_approved"
                                 ELSE "process_file", n))
                 /\ \A day \in Days \ {today} : logs'[day] = logs[day]]_vars

\* A file was moved to Done on one day and a Plan written on the next: each
\* day's log holds its own entry.
C13_Witness ==
    /\ today >= 1
    /\ \E i \in 1..Len(logs[0]) : logs[0][i].action_type = "execute_approved"
    /\ \E i \in 1..Len(logs[today]) : logs[today][i].action_type = "process_file"
    /\ fs["Plans"] # EmptyDir
    /\ fs["Done"] # EmptyDir

\* The characters the specification wants replaced: < > : " / \ | ? * and
\* their full-width variants U+FF1C U+FF1E U+FF1A U+FF02 U+FF0F U+FF3C U+FF5C
\* U+FF1F U+FF0A.
Forbidden ==
    {"<", ">", ":", "\"", "/", "\\", "|", "?", "*",
     "U+FF1C", "U+FF1E", "U+FF1A", "U+FF02", "U+FF0F", "U+FF3C", "U+FF5C",
     "U+FF1F", "U+FF0A"}

\* s with every forbidden character replaced by an underscore.
Underscored(s) == [i \in 1..Len(s) |-> IF s[i] \in Forbidden THEN "_" ELSE s[i]]

\* C14: what sanitize_filename returns for a string is the string with every
\* forbidden character replaced by an underscore, then trimmed of leading
\* and trailing whitespace, and it holds no forbidden character.
C14_SanitizeReplacesAll ==
    clean # <<>> =>
        /\ clean[1] = Strip(Underscored(name))
        /\ \A i \in 1..Len(clean[1]) : clean[1][i] \notin Forbidden

\* C15: sanitize_filename applied to what it returned returns the same
\* string.
C15_SanitizeIdempotent == Len(clean) = 2 => clean[2] = clean[1]

\* A string that had a character replaced and whitespace trimmed, sanitized
\* twice.
C15_Witness ==
    /\ Len(clean) = 2
    /\ Len(clean[1]) < Len(name)
    /\ \E i \in 1..Len(clean[1]) : clean[1][i] = "_"
    /\ \A i \in 1..Len(name) : name[i] # "_"

\* C16: when process_needs_action lists Intake and finds no markdown file, it
\* logs that there are no files to process, has nothing to attempt and
\* returns 0; neither its listing step nor its return writes a Plan, moves a
\* file, appends to the action log or rewrites the summary.
C16_EmptyIntake ==
    [][/\ (pc = "pna_list" /\ pc' = "pna_loop" /\ GlobMd(fs, "Needs_Action") = {}) =>
             /\ info' = "No files to process in Needs_Action"
             /\ todo' = {}
             /\ processed' = 0
             /\ fs' = fs
             /\ logs' = logs
             /\ dashboard' = dashboard
       /\ (NeedsActionReturns /\ DOMAIN listed = {} /\ pc' # pc) =>
             /\ info = "No files to process in Needs_Action"
             /\ processed = 0
             /\ fs' = fs
             /\ logs' = logs
             /\ dashboard' = dashboard]_vars

\* process_needs_action is about to return from an Intake that holds a file,
\* but no markdown file, with a summary already written.
C16_Witness ==
    /\ NeedsActionReturns
    /\ DOMAIN listed = {}
    /\ TxtA \in DOMAIN fs["Needs_Action"]
    /\ dashboard.written

\* C18: in continuous mode with no I/O failure, every file in Approved,
\* whatever its name or extension, is eventually moved to Done.
C18_ApprovedEventuallyDone ==
    \A n \in Names :
        (mode = "continuous" /\ n \in DOMAIN fs["Approved"])
            ~> (n \notin DOMAIN fs["Approved"] /\ n \in DOMAIN fs["Done"])

\* C19: each iteration of `for item in items` attempts the first item not
\* yet attempted and leaves exactly the later ones, in order, to the next
\* iterations, whether create_action_file returned or raised; an item whose
\* call raised is skipped (no Action File, nothing recorded for it).
C19_ItemFailureIsolated ==
    [][(wpc = "items" /\ starts' = starts) =>
          /\ batch # <<>>
          /\ batch' = Tail(batch)
          /\ wpc' = IF Tail(batch) = <<>> THEN "sleep" ELSE "items"
          /\ result' \in {"created", "skipped", "create_error"}
          /\ result' = "created" =>
                emitted' = [emitted EXCEPT ![Head(batch)] = emitted[Head(batch)] + 1]
          /\ result' = "create_error" =>
                /\ emitted' = emitted
                /\ processed_ids' = processed_ids
                /\ state_file' = state_file]_vars

\* create_action_file has just raised and the batch has later items left.
C19_Witness ==
    /\ wpc = "items"
    /\ result = "create_error"
    /\ Len(batch) >= 1

\* C20: an exception of check_for_updates or create_action_file does not end
\* the run loop: when check_for_updates raises no Action File is created and
\* the loop goes to its sleep, and from any point of a started loop
\* check_for_updates is called again.
C20_RunLoopNeverStops ==
    /\ [][(result' = "check_error" /\ starts' = starts) =>
             /\ wpc = "check"
             /\ wpc' = "sleep"
             /\ emitted' = emitted
             /\ batch' = <<>>]_vars
    /\ (wpc # "down") ~> (wpc = "check")

\* check_for_updates has raised in an iteration that follows one in which an
\* Action File was created.
C20_Witness ==
    /\ result = "check_error"
    /\ wpc = "sleep"
    /\ \E id \in Ids : emitted[id] >= 1

\* C21: start_file_watcher appends exactly one handle, of a newly spawned
\* running subprocess, to the list and signals nothing; stop_all_watchers
\* sends terminate to exactly the recorded handles still running, to none
\* that has exited, and leaves the list empty; with an empty list nothing is
\* signalled, so a second stop_all_watchers in a row signals nothing.
C21_StartStopHandles ==
    [][pc = "idle" =>
          /\ Len(procs') > Len(procs) =>
                /\ watcher_processes' = Append(watcher_processes, Len(procs'))
                /\ Len(procs') = Len(procs) + 1
                /\ procs'[Len(procs')] = "running"
                /\ Len(procs') \notin Handles(watcher_processes)
                /\ signalled' = signalled
          /\ Len(procs') = Len(procs) => Len(watcher_processes') <= Len(watcher_processes)
          /\ (signalled' # signalled \/ Len(watcher_processes') < Len(watcher_processes)) =>
                /\ signalled' \ signalled =
                      {pid \in Handles(watcher_processes) : procs[pid] = "running"}
                /\ signalled \subseteq signalled'
                /\ \A pid \in Handles(watcher_processes) :
                      procs[pid] = "exited" => pid \notin signalled'
                /\ watcher_processes' = <<>>
          /\ watcher_processes = <<>> => signalled' = signalled]_vars

\* Two watchers were started, one exited on its own, stop_all_watchers
\* signalled the other, and the orchestrator is ready for a further call.
C21_Witness ==
    /\ pc = "idle"
    /\ Len(procs) = 2
    /\ watcher_processes = <<>>
    /\ Cardinality(signalled) = 1
    /\ \E pid \in 1..Len(procs) : pid \notin signalled /\ procs[pid] = "exited"

\* The Intake files _process_single_file has logged so far, on any day.
Logged(action_type) ==
    {n \in Names : \E day \in Days : \E i \in 1..Len(logs[day]) :
        logs[day][i] = LogEntry(action_type, n)}

\* C22: over an Intake that does not change, every Plan is the Plan of one
\* markdown Intake file that was processed, at the path PLAN_<stem>.md;
\* distinct markdown Intake files have distinct Plan paths; there are never
\* more Plans than Intake files processed; and processing a file whose Plan
\* exists overwrites that path and adds none.
C22_PlansIdempotent ==
    /\ [](pc # "new" =>
            /\ \A p \in DOMAIN fs["Plans"] :
                  \E n \in GlobMd(fs, "Needs_Action") \cap Logged("process_file") :
                      p = PlanName(n) /\ fs["Plans"][p].source_file = n
            /\ \A n, m \in GlobMd(fs, "Needs_Action") : n # m => PlanName(n) # PlanName(m)
            /\ Cardinality(DOMAIN fs["Plans"]) <= Cardinality(Logged("process_file")))
    /\ [][\A n \in todo \ todo' :
             (pc = "pna_loop" /\ PlanName(n) \in DOMAIN fs["Plans"]) =>
                 /\ DOMAIN fs'["Plans"] = DOMAIN fs["Plans"]
                 /\ \A p \in DOMAIN fs["Plans"] :
                       p # PlanName(n) => fs'["Plans"][p] = fs["Plans"][p]
                 /\ fs'["Plans"][PlanName(n)] \in
                       {fs["Plans"][PlanName(n)], PlanFile(n, today)}]_vars

\* The second cycle has processed both Intake files again, on a later day
\* than the first: four log entries, two Plans, both rewritten.
C22_Witness ==
    /\ ops = 2
    /\ NeedsActionReturns
    /\ processed = 2
    /\ today >= 1
    /\ Len(logs[0]) = 2
    /\ Len(logs[today]) = 2
    /\ Cardinality(DOMAIN fs["Plans"]) = 2
    /\ \A p \in DOMAIN fs["Plans"] : fs["Plans"][p].mtime = today

\* C23: when process_approved returns, every file it logged an
\* execute_approved/success entry for during the pass has left Approved and
\* is in Done; when process_needs_action returns, every file it logged a
\* process_file/success entry for has its Plan.
C23_LogMatchesOutcome ==
    /\ ApprovedReturns =>
          \A n \in DOMAIN listed :
              EntriesFor("execute_approved", n) # {} =>
                  /\ n \in DOMAIN fs["Done"]
                  /\ fs["Done"][n] = listed[n]
                  /\ n \notin DOMAIN fs["Approved"]
    /\ NeedsActionReturns =>
          \A n \in DOMAIN listed :
              EntriesFor("process_file", n) # {} =>
                  /\ PlanName(n) \in DOMAIN fs["Plans"]
                  /\ fs["Plans"][PlanName(n)].source_file = n

\* C24: with watchers writing .md files into Intake at any moment of a
\* continuous run in which no file operation fails, no step takes a file out
\* of Intake, and a file that is in Intake during cycle c is in the listing
\* of cycle c+1 (whether or not the listing of cycle c had it) and has its
\* Plan before cycle c+1 is over.
C24_NoIntakeFileLost ==
    /\ [][\A n \in DOMAIN fs["Needs_Action"] :
             n \in DOMAIN fs'["Needs_Action"]
             /\ fs'["Needs_Action"][n] = fs["Needs_Action"][n]]_vars
    /\ \A n \in Names : \A c \in 1..(MaxCycles - 1) :
          (mode = "continuous" /\ ops = c /\ n \in DOMAIN fs["Needs_Action"])
              ~> (ops = c + 1 /\ pc = "pna_loop" /\ n \in DOMAIN listed)
    /\ \A n \in Names : \A c \in 1..(MaxCycles - 1) :
          (mode = "continuous" /\ ops = c /\ n \in DOMAIN fs["Needs_Action"])
              ~> (ops <= c + 1 /\ PlanName(n) \in DOMAIN fs["Plans"])

\* A file written while the listing of the first cycle was being read was
\* missed by it: the first cycle planned the other file only, and the second
\* cycle has now planned both.
C24_Witness ==
    /\ ops = 2
    /\ NeedsActionReturns
    /\ processed = 2
    /\ \E n, m \in DOMAIN listed :
          /\ Cardinality({i \in 1..Len(logs[today]) :
                 logs[today][i] = LogEntry("process_file", n)}) = 2
          /\ Cardinality({i \in 1..Len(logs[today]) :
                 logs[today][i] = LogEntry("process_file", m)}) = 1
          /\ PlanName(m) \in DOMAIN fs["Plans"]

====
